---- MODULE Spec2Model ----
(***************************************************************************)
(* Model of src/rust/src/main.rs: the program that loads an OMM catalog,   *)
(* reads the wall clock and propagates every satellite, and the pure       *)
(* function haversine_distance.                                            *)
(*                                                                         *)
(* Time is counted in ticks, TicksPerSecond ticks to the second, so that   *)
(* instants less than one second apart exist.  The outcomes of the         *)
(* external crates (serde_json, sgp4) on a record are attributes of the    *)
(* record: an input either parses or not, and an element set either has    *)
(* constants / a propagation or yields Err.                                *)
(***************************************************************************)
EXTENDS Integers, Sequences, FiniteSets, TLC

VARIABLES
    file,         \* space-track-omm.json on disk: whether it exists, and its records
    clock,        \* the process wall clock, in ticks
    pc,           \* position of main: "main", "clock", "map", "done", "panic"
    satellites,   \* Vec<sgp4::Elements> decoded at lines 9-10
    now,          \* the instant read at line 18, in ticks (NoTime before)
    idx,          \* number of satellites the map closure has been entered for
    predictions,  \* the Vec collected at line 35
    stdout,       \* the lines printed with println!
    panicMsg,     \* the message of the panic that ended main ("" if none)
    runs,         \* the completed invocations of main, in order
    hav           \* one call of haversine_distance: its arguments and result

vars == <<file, clock, pc, satellites, now, idx, predictions, stdout, panicMsg, runs, hav>>

(* ------------------------------ bounds --------------------------------- *)
MaxSats == 2
MaxClock == 3
MaxRuns == 2
TicksPerSecond == 2

(* ------------------------------ inputs --------------------------------- *)
\* A missing file; a file that exists holds a JSON array of records.
NoFile == [exists |-> FALSE, records |-> << >>]
\* The value of `now` before line 18 has run (never read there).
NoTime == 0 - 1
\* The catalog's objects: an id and the epoch of its element set, in ticks
Objects == {[id |-> 1, datetime |-> 0], [id |-> 2, datetime |-> 1]}
\* What the external crates make of a record:
\*   malformed      serde_json cannot build an Elements from it
\*   elements_err   Constants::from_elements returns Err
\*   propagate_err  propagate returns Err
\*   deep_ok / deep_err  period >= 225 min; from_elements returns Ok / Err
Kinds == {"ok", "malformed", "elements_err", "propagate_err", "deep_ok", "deep_err"}
Records == {[id |-> o.id, datetime |-> o.datetime, kind |-> k] : o \in Objects, k \in Kinds}

RECURSIVE SeqsUpTo(_, _)
SeqsUpTo(S, n) ==
    IF n = 0 THEN {<< >>}
    ELSE LET shorter == SeqsUpTo(S, n - 1)
         IN  shorter \cup {Append(s, x) : s \in {t \in shorter : Len(t) = n - 1}, x \in S}

Files == {NoFile} \cup {[exists |-> TRUE, records |-> s] : s \in SeqsUpTo(Records, MaxSats)}

WellFormed(r) == r.kind # "malformed"
DeepSpace(r) == r.kind \in {"deep_ok", "deep_err"}
Fails(r) == r.kind \in {"elements_err", "propagate_err", "deep_err"}

(* --------------------------- library calls ----------------------------- *)
\* fs::read_to_string(..)
read_to_string(f) ==
    IF ~f.exists THEN [ok |-> FALSE, val |-> << >>] ELSE [ok |-> TRUE, val |-> f.records]

\* serde_json::from_str::<Vec<sgp4::Elements>>: one Result for the whole array
from_str_lenient(data) ==
    [ok |-> TRUE, val |-> SelectSeq(data, WellFormed)]

from_str(data) ==
    IF \A k \in 1..Len(data) : WellFormed(data[k])
    THEN [ok |-> TRUE, val |-> data]
    ELSE [ok |-> FALSE, val |-> << >>]

\* sgp4::Constants::from_elements(sat)
from_elements(sat) ==
    IF sat.kind \in {"elements_err", "deep_err"}
    THEN [ok |-> FALSE] ELSE [ok |-> TRUE, constants |-> sat]

\* constants.propagate(epoch_minutes)
propagate(constants, epoch_minutes) ==
    IF constants.kind = "propagate_err"
    THEN [ok |-> FALSE] ELSE [ok |-> TRUE, prediction |-> <<constants.id, epoch_minutes>>]

\* chrono::Utc.from_local_datetime(&ndt): the naive datetime tagged with offset 0
from_local_datetime(ndt) == [naive |-> ndt, offset |-> 0]

\* now - sat_utc_dt, a chrono Duration, in ticks
time_diff(t, dt) == t - (dt.naive - dt.offset)

\* Duration::num_seconds: the whole seconds of the duration, rounded toward zero
num_seconds(d) ==
    IF d >= 0 THEN d \div TicksPerSecond ELSE -((-d) \div TicksPerSecond)

\* (num_seconds as f64) / 60.0, kept as the fraction secs/60
epoch_minutes_of(d) == [num |-> num_seconds(d), den |-> 60]

\* The instant the closure measures against: the captured `now` of line 18
clock_reread(captured, wall) == wall

query_instant(captured, wall) == captured

\* The value of the map closure: its block ends in `;`, so it is ()
Unit == "()"

MsgRead == "Unable to read file"
MsgJson == "JSON was not well-formatted"
MsgElements == "unwrap: from_elements"
MsgPropagate == "unwrap: propagate"
UnwrapMsgs == {MsgElements, MsgPropagate}

LoadedLine(n) == <<"Loaded", n>>
EpochLine(sat, t) ==
    LET dt == from_local_datetime(sat.datetime)
    IN  <<"Epoch", dt, epoch_minutes_of(time_diff(t, dt))>>


(* ------------------------- haversine_distance -------------------------- *)
\* An f64 is kept as a whole number of 1/Scale units; every operation rounds
\* toward zero, which like IEEE rounding commutes with negation.
Scale == 1000
Pi == 3142
EarthRadiusKm == 6371

F(whole) == whole * Scale
FDiv(a, b) == IF a >= 0 THEN a \div b ELSE -((-a) \div b)
FMul(a, b) == FDiv(a * b, Scale)

\* f64::to_radians: x * (PI / 180)
to_radians(x) == FDiv(x * Pi, F(180))

\* f64::sin and f64::cos by their power series, summed until a term vanishes
RECURSIVE SinSeries(_, _, _)
SinSeries(term, x2, k) ==
    IF term = 0 THEN 0
    ELSE term + SinSeries(-FDiv(FMul(term, x2), (2 * k) * (2 * k + 1)), x2, k + 1)

RECURSIVE CosSeries(_, _, _)
CosSeries(term, x2, k) ==
    IF term = 0 THEN 0
    ELSE term + CosSeries(-FDiv(FMul(term, x2), (2 * k - 1) * (2 * k)), x2, k + 1)

sin(x) == SinSeries(x, FMul(x, x), 1)
cos(x) == CosSeries(F(1), FMul(x, x), 1)
powi2(x) == FMul(x, x)

\* f64::sqrt on [0, 1]: the largest r in lo..hi with r * r <= a
RECURSIVE SqrtSearch(_, _, _)
SqrtSearch(lo, hi, a) ==
    IF lo = hi THEN lo
    ELSE LET mid == (lo + hi + 1) \div 2
         IN  IF mid * mid <= a * Scale
             THEN SqrtSearch(mid, hi, a) ELSE SqrtSearch(lo, mid - 1, a)

sqrt(a) == SqrtSearch(0, Scale, a)

\* f64::atan2(y, x) for y >= 0, x >= 0 (both are square roots here): the
\* largest angle th in lo..hi, within [0, PI/2], with tan(th) <= y / x
RECURSIVE AtanSearch(_, _, _, _)
AtanSearch(lo, hi, y, x) ==
    IF lo = hi THEN lo
    ELSE LET mid == (lo + hi + 1) \div 2
         IN  IF sin(mid) * x <= cos(mid) * y
             THEN AtanSearch(mid, hi, y, x) ELSE AtanSearch(lo, mid - 1, y, x)

atan2(y, x) == AtanSearch(0, Pi \div 2, y, x)

\* lines 40 .. 48, with cos(lat1) used twice in place of cos(lat1) * cos(lat2)
haversine_distance_lat1_twice(lat1, lon1, lat2, lon2) ==
    LET d_lat == to_radians(F(lat2) - F(lat1))
        d_lon == to_radians(F(lon2) - F(lon1))
        a == powi2(sin(FDiv(d_lat, 2)))
             + FMul(FMul(cos(to_radians(F(lat1))), cos(to_radians(F(lat1)))),
                    powi2(sin(FDiv(d_lon, 2))))
        c == 2 * atan2(sqrt(a), sqrt(F(1) - a))
    IN  EarthRadiusKm * c

\* lines 40 .. 48; the arguments are whole degrees, the result km in 1/Scale units
haversine_distance(lat1, lon1, lat2, lon2) ==
    LET d_lat == to_radians(F(lat2) - F(lat1))
        d_lon == to_radians(F(lon2) - F(lon1))
        a == powi2(sin(FDiv(d_lat, 2)))
             + FMul(FMul(cos(to_radians(F(lat1))), cos(to_radians(F(lat2)))),
                    powi2(sin(FDiv(d_lon, 2))))
        c == 2 * atan2(sqrt(a), sqrt(F(1) - a))
    IN  EarthRadiusKm * c

HavLats == {-90, -45, 0, 30, 60}
HavLons == {-180, -90, 0, 45, 120}

(* ------------------------------ actions -------------------------------- *)
\* No call of haversine_distance: main never calls it.
NoCall == [lat1 |-> 0, lon1 |-> 0, lat2 |-> 0, lon2 |-> 0, ab |-> FALSE, ba |-> FALSE, dAB |-> 0, dBA |-> 0]

Init ==
    /\ file \in Files
    /\ clock = 0
    /\ pc = "main"
    /\ satellites = << >>
    /\ now = NoTime
    /\ idx = 0
    /\ predictions = << >>
    /\ stdout = << >>
    /\ panicMsg = ""
    /\ runs = << >>
    /\ hav = NoCall

\* The wall clock advances on its own.
Tick ==
    /\ clock < MaxClock
    /\ clock' = clock + 1
    /\ UNCHANGED <<file, pc, satellites, now, idx, predictions, stdout, panicMsg, runs, hav>>

\* line 8 .. 11: read the file, decode it, print the count
Load ==
    /\ pc = "main"
    /\ LET data == read_to_string(file)
           parsed == from_str(data.val)
       IN  IF ~data.ok
           THEN /\ pc' = "panic" /\ panicMsg' = MsgRead
                /\ UNCHANGED <<satellites, stdout>>
           ELSE IF ~parsed.ok
           THEN /\ pc' = "panic" /\ panicMsg' = MsgJson
                /\ UNCHANGED <<satellites, stdout>>
           ELSE /\ satellites' = parsed.val
                /\ stdout' = Append(stdout, LoadedLine(Len(parsed.val)))
                /\ pc' = "clock"
                /\ UNCHANGED panicMsg
    /\ UNCHANGED <<file, clock, now, idx, predictions, runs, hav>>

\* line 18: let now = chrono::Utc::now()
ReadClock ==
    /\ pc = "clock"
    /\ now' = clock
    /\ pc' = "map"
    /\ UNCHANGED <<file, clock, satellites, idx, predictions, stdout, panicMsg, runs, hav>>

\* lines 22 .. 34: the closure, for the next satellite of the iterator
MapStep ==
    /\ pc = "map"
    /\ idx < Len(satellites)
    /\ LET sat == satellites[idx + 1]
           c == from_elements(sat)
           t == query_instant(now, clock)
           line == EpochLine(sat, t)
       IN  IF ~c.ok
           THEN /\ pc' = "panic" /\ panicMsg' = MsgElements
                /\ UNCHANGED <<predictions, stdout>>
           ELSE IF ~propagate(c.constants, line[3]).ok
           THEN /\ pc' = "panic" /\ panicMsg' = MsgPropagate
                /\ stdout' = Append(stdout, line)
                /\ UNCHANGED predictions
           ELSE /\ stdout' = Append(stdout, line)
                /\ predictions' = Append(predictions, Unit)
                /\ UNCHANGED <<pc, panicMsg>>
    /\ idx' = idx + 1
    /\ UNCHANGED <<file, clock, satellites, now, runs, hav>>

\* lines 35 .. 36: the iterator is exhausted; collect ends and main returns Ok(())
Return ==
    /\ pc = "map"
    /\ idx = Len(satellites)
    /\ pc' = "done"
    /\ UNCHANGED <<file, clock, satellites, now, idx, predictions, stdout, panicMsg, runs, hav>>

RunRecord ==
    [input |-> file, now |-> now, stdout |-> stdout, predictions |-> predictions,
     exit |-> pc, panicMsg |-> panicMsg]

\* The process ends and the program is invoked again on the same file.
Invoke ==
    /\ pc \in {"done", "panic"}
    /\ Len(runs) < MaxRuns
    /\ runs' = Append(runs, RunRecord)
    /\ pc' = "main"
    /\ satellites' = << >>
    /\ now' = NoTime
    /\ idx' = 0
    /\ predictions' = << >>
    /\ stdout' = << >>
    /\ panicMsg' = ""
    /\ UNCHANGED <<file, clock, hav>>

Next == Tick \/ Load \/ ReadClock \/ MapStep \/ Return \/ Invoke

Spec == Init /\ [][Next]_vars

(* --------------------- haversine_distance, applied --------------------- *)
InitHav ==
    /\ file = NoFile
    /\ clock = 0
    /\ pc = "main"
    /\ satellites = << >>
    /\ now = NoTime
    /\ idx = 0
    /\ predictions = << >>
    /\ stdout = << >>
    /\ panicMsg = ""
    /\ runs = << >>
    /\ hav \in {[lat1 |-> a, lon1 |-> b, lat2 |-> c, lon2 |-> d,
                 ab |-> FALSE, ba |-> FALSE, dAB |-> 0, dBA |-> 0] :
                    a \in HavLats, b \in HavLons, c \in HavLats, d \in HavLons}

\* d(A, B)
CallAB ==
    /\ ~hav.ab
    /\ hav' = [hav EXCEPT !.ab = TRUE,
                          !.dAB = haversine_distance(hav.lat1, hav.lon1, hav.lat2, hav.lon2)]
    /\ UNCHANGED <<file, clock, pc, satellites, now, idx, predictions, stdout, panicMsg, runs>>

\* d(B, A)
CallBA ==
    /\ ~hav.ba
    /\ hav' = [hav EXCEPT !.ba = TRUE,
                          !.dBA = haversine_distance(hav.lat2, hav.lon2, hav.lat1, hav.lon1)]
    /\ UNCHANGED <<file, clock, pc, satellites, now, idx, predictions, stdout, panicMsg, runs>>

NextHav == CallAB \/ CallBA

SpecHav == InitHav /\ [][NextHav]_vars

(* ------------------------- what a query returns ------------------------ *)
Terminal == pc \in {"done", "panic"}

\* The collected entries that name a satellite with its distance.  The closure
\* yields (), so the collected Vec holds none.
Ranking == SelectSeq(predictions, LAMBDA p : p # Unit)
RankedIds == {Ranking[i].id : i \in 1..Len(Ranking)}

\* The (id, error-kind) pairs the program reports; it prints only "Loaded" and
\* "Epoch" lines.
Failures == SelectSeq(stdout, LAMBDA l : l[1] = "Failure")
FailedIds == {Failures[i][2] : i \in 1..Len(Failures)}

SortedByMetricThenId(r) ==
    \A i, j \in 1..Len(r) :
        i < j => \/ r[i].metric < r[j].metric
                 \/ (r[i].metric = r[j].metric /\ r[i].id <= r[j].id)

SameOutput(r1, r2) ==
    /\ r1.stdout = r2.stdout
    /\ r1.predictions = r2.predictions
    /\ r1.exit = r2.exit
    /\ r1.panicMsg = r2.panicMsg

AnyMalformed == \E k \in 1..Len(file.records) : ~WellFormed(file.records[k])

(* ------------------------------ properties ----------------------------- *)

\* C1: a satellite whose constants derivation or propagation fails never
\* aborts the query: with such a record in the catalog, main is never ended
\* by the panic of an unwrap in the closure.
C1_FailureNeverAborts ==
    (\E k \in 1..Len(satellites) : Fails(satellites[k]))
        => ~(pc = "panic" /\ panicMsg \in UnwrapMsgs)

C3_RankingSortedHeadNearest ==
    (pc = "done" /\ satellites # << >>)
        => /\ SortedByMetricThenId(Ranking)
           /\ Ranking # << >>
           /\ \E k \in 1..Len(satellites) : Head(Ranking).id = satellites[k].id

C5_DeepSpaceReported ==
    \A k \in 1..Len(satellites) :
        ( /\ Terminal
          /\ DeepSpace(satellites[k])
          /\ \A j \in 1..Len(satellites) :
                 DeepSpace(satellites[j]) \/ satellites[j].kind = "ok" )
            => /\ pc = "done"
               /\ Len(predictions)
                      = Cardinality({j \in 1..Len(satellites) : ~DeepSpace(satellites[j])})
               /\ \E i \in 1..Len(Failures) :
                      Failures[i] = <<"Failure", satellites[k].id, "DeepSpaceUnsupported">>

\* C6: whatever the order in which the per-satellite results were produced,
\* the collected results of a completed query are one keyed entry per
\* satellite, sorted by (metric, id) at the end.
C6_CollectedSortedAtEnd ==
    pc = "done"
        => /\ Len(Ranking) = Len(satellites)
           /\ SortedByMetricThenId(Ranking)

\* C8: the offset given to propagation keeps sub-second precision: two
\* invocations on the same catalog whose instants differ by less than one
\* second print different minutes-since-epoch for the first satellite.
C8_SubSecondPreserved ==
    \A i, j \in 1..Len(runs) :
        ( /\ runs[i].input = runs[j].input
          /\ Len(runs[i].stdout) >= 2 /\ Len(runs[j].stdout) >= 2
          /\ runs[i].now # runs[j].now
          /\ runs[i].now - runs[j].now < TicksPerSecond
          /\ runs[j].now - runs[i].now < TicksPerSecond )
            => runs[i].stdout[2][3] # runs[j].stdout[2][3]

\* C9: haversine_distance is symmetric, d(A,B) = d(B,A), and zero on
\* identical points, d(A,A) = 0.
C9_HaversineSymmetricZero ==
    /\ (hav.ab /\ hav.ba) => hav.dAB = hav.dBA
    /\ (hav.ab /\ hav.lat1 = hav.lat2 /\ hav.lon1 = hav.lon2) => hav.dAB = 0

C9_Witness ==
    /\ hav.ab /\ hav.ba
    /\ hav.lat1 # hav.lat2 /\ hav.lon1 # hav.lon2
    /\ hav.dAB > 0

\* C10: after a completed query every decoded record is accounted for exactly
\* once: its id is in the ranking or in the failures list, never in both and
\* never in neither, and the two lengths add up to the number of records.
C10_EveryRecordAccounted ==
    pc = "done"
        => /\ \A k \in 1..Len(satellites) :
                  (satellites[k].id \in RankedIds) # (satellites[k].id \in FailedIds)
           /\ Len(Ranking) + Len(Failures) = Len(satellites)

====
